---- MODULE Spec2Model ----
(***************************************************************************)
(* A model of src/server.js, the EDU AI Lab backend: an Express server     *)
(* whose routes validate a JSON (or multipart) body, build a prompt, call  *)
(* the external model once (askGemini), optionally append a translation    *)
(* request (wrapBilingual) and answer with JSON.  The only shared state is *)
(* the tutorMemory array and the uploads directory.                        *)
(*                                                                         *)
(* A JavaScript string is a sequence of one-character strings.  A JSON     *)
(* value is a record [t, s, n, a]: its type tag, its characters when it is *)
(* a string (or the original name when it is an uploaded file), its value  *)
(* when it is a number or a boolean, its items when it is an array.        *)
(* Every async handler is cut at its awaits: the code between two awaits   *)
(* runs without interruption (Node runs one callback at a time), so it is  *)
(* one action.                                                             *)
(***************************************************************************)
EXTENDS Integers, Sequences, FiniteSets, TLC

\* ---------------------------------------------------------------- bounds
NumReq == 2          \* concurrent /tutor requests of SpecTutor
ServerReqs == 1      \* concurrent requests (any route) of Spec
MaxLangLen == 5      \* characters of a `language` value in SpecWrap
MaxCount == 102      \* largest numeric `count` / `variations` in SpecCount
MaxRefLen == 2       \* characters of one string entry of `references`
MaxRefs == 2         \* entries of a `references` array
MaxNameParts == 2    \* parts of an uploaded file's original name
MaxPages == 2        \* pages of an uploaded PDF
MaxItems == 1        \* text items on one page
BigRunLen == 100001  \* length of the run of characters the token Big denotes

VARIABLES req, tutorMemory, uploads

vars == <<req, tutorMemory, uploads>>

Slots == 1..(IF NumReq > ServerReqs THEN NumReq ELSE ServerReqs)

\* ------------------------------------------------------------ JSON values
Undef == [t |-> "undefined", s |-> <<>>, n |-> 0, a |-> <<>>]
Null == [t |-> "null", s |-> <<>>, n |-> 0, a |-> <<>>]
Str(s) == [t |-> "string", s |-> s, n |-> 0, a |-> <<>>]
Num(n) == [t |-> "number", s |-> <<>>, n |-> n, a |-> <<>>]
Bool(b) == [t |-> "boolean", s |-> <<>>, n |-> IF b THEN 1 ELSE 0, a |-> <<>>]
Arr(a) == [t |-> "array", s |-> <<>>, n |-> 0, a |-> a]
Obj == [t |-> "object", s |-> <<>>, n |-> 0, a |-> <<>>]
File(name) == [t |-> "file", s |-> name, n |-> 0, a |-> <<>>]

\* ToBoolean: what `!v`, `v || d` and `if (v)` test.
Truthy(v) ==
  CASE v.t \in {"undefined", "null"} -> FALSE
    [] v.t \in {"number", "boolean"} -> v.n # 0
    [] v.t = "string" -> v.s # <<>>
    [] OTHER -> TRUE

\* The token Big stands for a run of BigRunLen non-blank characters; every
\* other element of a string is one character.
Big == "x..x"

CharLen(c) == IF c = Big THEN BigRunLen ELSE 1

RECURSIVE StrLength(_)
StrLength(s) == IF s = <<>> THEN 0 ELSE CharLen(Head(s)) + StrLength(Tail(s))

IsWhite(c) == c \in {" ", "\n", "\t"}

SetMin(S) == CHOOSE x \in S : \A y \in S : x <= y

SetMax(S) == CHOOSE x \in S : \A y \in S : y <= x

\* String.prototype.trim
Trim(s) ==
  LET keep == {i \in 1..Len(s) : ~IsWhite(s[i])}
  IN IF keep = {} THEN <<>> ELSE SubSeq(s, SetMin(keep), SetMax(keep))

LowerChar(c) ==
  CASE c = "N" -> "n" [] c = "O" -> "o" [] c = "E" -> "e"
    [] c = "P" -> "p" [] c = "D" -> "d" [] c = "F" -> "f"
    [] OTHER -> c

\* String.prototype.toLowerCase
toLowerCase(s) == [i \in 1..Len(s) |-> LowerChar(s[i])]

UpperChar(c) ==
  CASE c = "user" -> "USER" [] c = "assistant" -> "ASSISTANT" [] OTHER -> c

RECURSIVE Digits(_)
Digits(n) ==
  LET d == <<"0", "1", "2", "3", "4", "5", "6", "7", "8", "9">>
  IN IF n < 10 THEN <<d[n + 1]>> ELSE Digits(n \div 10) \o <<d[(n % 10) + 1]>>

\* Array.prototype.join over strings
RECURSIVE Join(_, _)
Join(ss, sep) ==
  IF ss = <<>> THEN <<>>
  ELSE IF Len(ss) = 1 THEN ss[1]
  ELSE ss[1] \o sep \o Join(Tail(ss), sep)

\* String(v) of a value without items
ScalarString(v) ==
  CASE v.t = "string" -> v.s
    [] v.t = "number" -> IF v.n < 0 THEN <<"-">> \o Digits(-v.n) ELSE Digits(v.n)
    [] v.t = "boolean" -> IF v.n = 1 THEN <<"true">> ELSE <<"false">>
    [] v.t = "null" -> <<"null">>
    [] v.t = "undefined" -> <<"undefined">>
    [] OTHER -> <<"[object Object]">>

\* String(v), as a template literal or a regular expression coerces v; an
\* array prints its items joined by commas, null and undefined items empty.
StringOf(v) ==
  IF v.t = "array"
  THEN Join([i \in 1..Len(v.a) |->
              IF v.a[i].t \in {"null", "undefined"} THEN <<>> ELSE ScalarString(v.a[i])],
            <<",">>)
  ELSE ScalarString(v)

\* JSON.stringify(v) of a value that is not a string
Stringify(v) ==
  CASE v.t = "object" -> <<"{", "}">>
    [] v.t = "array" -> <<"[">> \o Join([i \in 1..Len(v.a) |->
                           IF v.a[i].t = "string" THEN <<"\"">> \o v.a[i].s \o <<"\"">>
                           ELSE ScalarString(v.a[i])], <<",">>) \o <<"]">>
    [] OTHER -> ScalarString(v)

\* -------------------------------------------------------- request records
Fields == {"question", "text", "essay", "language", "count", "variations",
           "tone", "subjects", "examDate", "context", "references", "style", "file"}

\* `req.body || {}` (and req.file): a field that was not sent reads undefined.
Body(given) == [f \in Fields |-> IF f \in DOMAIN given THEN given[f] ELSE Undef]

NoPrompt == [tpl |-> "", n |-> [k |-> "fin", n |-> 0], text |-> <<>>, aux |-> <<>>]

Prompt(tpl, n, text, aux) == [tpl |-> tpl, n |-> n, text |-> text, aux |-> aux]

Idle ==
  [pc |-> "idle", route |-> "", body |-> Body(<<>>), status |-> 0, error |-> "",
   out |-> <<>>, sent |-> 0, prompt |-> NoPrompt, calls |-> 0, answer |-> <<>>,
   memBefore |-> <<>>, read |-> "none", unlink |-> "none"]

\* A request as the handler receives it; memBefore remembers the tutoring
\* history at that moment.
NewReq(route, body) ==
  [Idle EXCEPT !.route = route, !.body = body, !.memBefore = tutorMemory]

\* res.status(status).json({ error }) or res.json({ key: out })
Respond(rq, status, error, out) ==
  [rq EXCEPT !.pc = "done", !.status = status, !.error = error, !.out = out,
             !.sent = @ + 1]

\* An exception that leaves the async handler: its promise rejects and no
\* code of this file answers the request.
Unhandled(rq) == [rq EXCEPT !.pc = "unhandled"]

\* askGemini with a second attempt: the request is sent twice.
askGeminiRetry(rq, prompt) ==
  [rq EXCEPT !.pc = "awaiting", !.prompt = prompt, !.calls = @ + 2]

\* await askGemini(prompt, t): the request is sent and the handler suspends
\* (the temperature t is passed on and not read again).
askGemini(rq, prompt) ==
  [rq EXCEPT !.pc = "awaiting", !.prompt = prompt, !.calls = @ + 1]

\* The test without its trim: `!v`.
BlankCheckNoTrim(v) == IF ~Truthy(v) THEN "blank" ELSE IF v.t # "string" THEN "throw" ELSE "ok"

\* `!v || !v.trim()`: "blank" when the test is true, "ok" when it is false,
\* "throw" when v is truthy and has no trim method (TypeError).
BlankCheck(v) ==
  IF ~Truthy(v) THEN "blank"
  ELSE IF v.t # "string" THEN "throw"
  ELSE IF Trim(v.s) = <<>> THEN "blank"
  ELSE "ok"

\* The test without its i flag: /^none$/.test(language)
IsNoneCaseSensitive(language) == StringOf(language) = <<"n", "o", "n", "e">>

\* /^none$/i.test(language)
IsNone(language) == toLowerCase(StringOf(language)) = <<"n", "o", "n", "e">>

\* (The token "(translate) " stands for the arrow emoji and its blank.)
wrapBilingual(text, language) ==
  IF ~Truthy(language) \/ IsNone(language) THEN text
  ELSE text \o <<"\n", "\n", "-", "-", "-", "\n", "\n", "(translate) ">>
            \o StringOf(language)
            \o <<" Translation:", "\n", "Translate the entire answer above to ">>
            \o StringOf(language)
            \o <<", preserving structure, headings, lists and tone.">>

\* ---------------------------------------------------------------- numbers
\* A JavaScript number: finite (an integer here), NaN, Infinity or -Infinity.
Fin(n) == [k |-> "fin", n |-> n]
NaN == [k |-> "nan", n |-> 0]
PosInf == [k |-> "inf", n |-> 0]
NegInf == [k |-> "ninf", n |-> 0]

DigitChars == {"0", "1", "2", "3", "4", "5", "6", "7", "8", "9"}

DigitVal(c) == CHOOSE d \in 0..9 : Digits(d) = <<c>>

RECURSIVE DigitsValue(_)
DigitsValue(s) ==
  IF s = <<>> THEN 0 ELSE 10 * DigitsValue(SubSeq(s, 1, Len(s) - 1)) + DigitVal(s[Len(s)])

AllDigits(s) == s # <<>> /\ \A i \in 1..Len(s) : s[i] \in DigitChars

\* StringToNumber of a string of blanks, a sign, decimal digits or the word
\* Infinity (fractions, exponents and radix prefixes do not occur here).
StringToNumber(s) ==
  LET t == Trim(s)
      inf == <<"I", "n", "f", "i", "n", "i", "t", "y">>
  IN IF t = <<>> THEN Fin(0)
     ELSE IF t = inf \/ t = <<"+">> \o inf THEN PosInf
     ELSE IF t = <<"-">> \o inf THEN NegInf
     ELSE IF AllDigits(t) THEN Fin(DigitsValue(t))
     ELSE IF Head(t) = "-" /\ AllDigits(Tail(t)) THEN Fin(0 - DigitsValue(Tail(t)))
     ELSE IF Head(t) = "+" /\ AllDigits(Tail(t)) THEN Fin(DigitsValue(Tail(t)))
     ELSE NaN

\* The unary plus of `+count`
ToNumber(v) ==
  CASE v.t = "number" -> Fin(v.n)
    [] v.t = "boolean" -> Fin(v.n)
    [] v.t = "null" -> Fin(0)
    [] v.t = "undefined" -> NaN
    [] v.t = "string" -> StringToNumber(v.s)
    [] v.t = "array" -> StringToNumber(StringOf(v))
    [] OTHER -> NaN

\* `x || d` on numbers: 0 and NaN are falsy
NumberOr(x, d) == IF x.k = "nan" \/ (x.k = "fin" /\ x.n = 0) THEN Fin(d) ELSE x

\* Math.min(x, hi) and Math.max(lo, x) for a finite second operand
MathMin(x, hi) ==
  CASE x.k = "nan" -> NaN
    [] x.k = "inf" -> Fin(hi)
    [] x.k = "ninf" -> NegInf
    [] OTHER -> IF x.n < hi THEN x ELSE Fin(hi)

MathMax(lo, x) ==
  CASE x.k = "nan" -> NaN
    [] x.k = "inf" -> PosInf
    [] x.k = "ninf" -> Fin(lo)
    [] OTHER -> IF x.n > lo THEN x ELSE Fin(lo)

MinCount == 1
QuizDefault == 10
QuizMax == 50
FlashDefault == 20
FlashMax == 100
ParaDefault == 3
ParaMax == 6
RefsLimit == 100000

\* A destructuring default `{ f = d }`: it replaces undefined only.
Default(v, d) == IF v.t = "undefined" THEN d ELSE v

\* Math.max(1, Math.min(+count || dflt, hi))
ClampCount(count, dflt, hi) ==
  MathMax(MinCount, MathMin(NumberOr(ToNumber(Default(count, Num(dflt))), dflt), hi))

\* --------------------------------------------------------- prompt builders
promptSummary(text, lang) == Prompt("summary", Fin(0), text, lang)

promptQuiz(text, count) == Prompt("quiz", count, text, <<>>)

promptFlashcards(text, count) == Prompt("flashcards", count, text, <<>>)

promptMindmap(text) == Prompt("mindmap", Fin(0), text, <<>>)

promptMotivation(context) ==
  Prompt("motivation", Fin(0), IF Truthy(context) THEN StringOf(context) ELSE <<"N/A">>, <<>>)

promptEssayFeedback(essay) == Prompt("essay", Fin(0), essay, <<>>)

promptParaphrase(text, tone, variations) == Prompt("paraphrase", variations, text, tone)

promptExtractTable(text) == Prompt("table", Fin(0), text, <<>>)

promptCitations(refs, style) == Prompt("citations", Fin(0), refs, style)

promptERGraph(text) == Prompt("ergraph", Fin(0), text, <<>>)

\* ------------------------------------------------------------------ routes
\* `if (!v || !v.trim()) return res.status(400)...` written before the try
\* block: a TypeError of the test leaves the handler.
GuardOutside(rq, v, code400, next) ==
  CASE BlankCheck(v) = "blank" -> Respond(rq, 400, code400, <<>>)
    [] BlankCheck(v) = "throw" -> Unhandled(rq)
    [] OTHER -> next

\* The same test written inside the try block: the catch answers 500.
GuardInside(rq, v, code400, code500, next) ==
  CASE BlankCheck(v) = "blank" -> Respond(rq, 400, code400, <<>>)
    [] BlankCheck(v) = "throw" -> Respond(rq, 500, code500, <<>>)
    [] OTHER -> next

\* The 500 error code of each route's catch block.
FailCode(route) ==
  CASE route = "chat" -> "chat_failed"
    [] route = "summarize-text" -> "summarize_text_failed"
    [] route = "summarize-pdf" -> "summarize_pdf_failed"
    [] route = "generate-quiz" -> "quiz_failed"
    [] route = "flashcards" -> "flashcards_failed"
    [] route = "study-planner" -> "planner_failed"
    [] route = "mindmap" -> "mindmap_failed"
    [] route = "motivation" -> "motivation_failed"
    [] route = "essay-feedback" -> "essay_feedback_failed"
    [] route = "paraphrase" -> "paraphrase_failed"
    [] route = "tutor" -> "tutor_failed"
    [] route = "extract-table" -> "table_failed"
    [] route = "generate-citations" -> "citations_failed"
    [] route = "knowledge-graph" -> "graph_failed"
    [] OTHER -> ""

\* GET /
Health(r) ==
  /\ req[r].pc = "idle"
  /\ req' = [req EXCEPT ![r] = Respond(NewReq("health", Body(<<>>)), 200, "", <<"running">>)]
  /\ UNCHANGED <<tutorMemory, uploads>>

\* POST /chat, up to its await
Chat(r, body) ==
  /\ req[r].pc = "idle"
  /\ LET rq == NewReq("chat", body)
         question == body["question"]
     IN req' = [req EXCEPT ![r] =
                  GuardOutside(rq, question, "Missing 'question'",
                               askGemini(rq, Prompt("chat", Fin(0), question.s, <<>>)))]
  /\ UNCHANGED <<tutorMemory, uploads>>

\* POST /summarize-text, up to its await
SummarizeText(r, body) ==
  /\ req[r].pc = "idle"
  /\ LET rq == NewReq("summarize-text", body)
         text == body["text"]
     IN req' = [req EXCEPT ![r] =
                  GuardInside(rq, text, "missing_text", FailCode("summarize-text"),
                              askGemini(rq, promptSummary(text.s, <<"English">>)))]
  /\ UNCHANGED <<tutorMemory, uploads>>

\* POST /generate-quiz, up to its await
GenerateQuiz(r, body) ==
  /\ req[r].pc = "idle"
  /\ LET rq == NewReq("generate-quiz", body)
         text == body["text"]
     IN req' = [req EXCEPT ![r] =
                  GuardInside(rq, text, "missing_text", FailCode("generate-quiz"),
                              askGemini(rq, promptQuiz(text.s,
                                  ClampCount(body["count"], QuizDefault, QuizMax))))]
  /\ UNCHANGED <<tutorMemory, uploads>>

\* POST /flashcards, up to its await
Flashcards(r, body) ==
  /\ req[r].pc = "idle"
  /\ LET rq == NewReq("flashcards", body)
         text == body["text"]
     IN req' = [req EXCEPT ![r] =
                  GuardInside(rq, text, "missing_text", FailCode("flashcards"),
                              askGemini(rq, promptFlashcards(text.s,
                                  ClampCount(body["count"], FlashDefault, FlashMax))))]
  /\ UNCHANGED <<tutorMemory, uploads>>

\* `!examDate || !subjects.length`, then `subjects.join(", ")`: null has no
\* length (TypeError), a non-empty string has a length but no join
\* (TypeError), a number, boolean or object has no length (falsy).
PlannerCheck(subjects, examDate) ==
  IF ~Truthy(examDate) THEN "blank"
  ELSE IF subjects.t = "null" THEN "throw"
  ELSE IF subjects.t = "array" THEN (IF subjects.a = <<>> THEN "blank" ELSE "ok")
  ELSE IF subjects.t = "string" THEN (IF subjects.s = <<>> THEN "blank" ELSE "throw")
  ELSE "blank"

\* POST /study-planner, up to its await (hoursPerDay is only interpolated)
StudyPlanner(r, body) ==
  /\ req[r].pc = "idle"
  /\ LET rq == NewReq("study-planner", body)
         subjects == Default(body["subjects"], Arr(<<>>))
         examDate == body["examDate"]
         chk == PlannerCheck(subjects, examDate)
         joined == Join([i \in 1..Len(subjects.a) |->
                           IF subjects.a[i].t \in {"null", "undefined"} THEN <<>>
                           ELSE ScalarString(subjects.a[i])], <<",", " ">>)
     IN req' = [req EXCEPT ![r] =
                  CASE chk = "blank" -> Respond(rq, 400, "missing_fields", <<>>)
                    [] chk = "throw" -> Respond(rq, 500, FailCode("study-planner"), <<>>)
                    [] OTHER -> askGemini(rq, Prompt("planner", Fin(0), joined, StringOf(examDate)))]
  /\ UNCHANGED <<tutorMemory, uploads>>

\* POST /mindmap, up to its await
Mindmap(r, body) ==
  /\ req[r].pc = "idle"
  /\ LET rq == NewReq("mindmap", body)
         text == body["text"]
     IN req' = [req EXCEPT ![r] =
                  GuardInside(rq, text, "missing_text", FailCode("mindmap"),
                              askGemini(rq, promptMindmap(text.s)))]
  /\ UNCHANGED <<tutorMemory, uploads>>

\* POST /motivation, up to its await: no required field
Motivation(r, body) ==
  /\ req[r].pc = "idle"
  /\ req' = [req EXCEPT ![r] =
               askGemini(NewReq("motivation", body), promptMotivation(body["context"]))]
  /\ UNCHANGED <<tutorMemory, uploads>>

\* POST /essay-feedback, up to its await
EssayFeedback(r, body) ==
  /\ req[r].pc = "idle"
  /\ LET rq == NewReq("essay-feedback", body)
         essay == body["essay"]
     IN req' = [req EXCEPT ![r] =
                  GuardOutside(rq, essay, "missing_essay",
                               askGemini(rq, promptEssayFeedback(essay.s)))]
  /\ UNCHANGED <<tutorMemory, uploads>>

\* POST /paraphrase, up to its await
Paraphrase(r, body) ==
  /\ req[r].pc = "idle"
  /\ LET rq == NewReq("paraphrase", body)
         text == body["text"]
         tone == Default(body["tone"], Str(<<"academic">>))
     IN req' = [req EXCEPT ![r] =
                  GuardOutside(rq, text, "missing_text",
                               askGemini(rq, promptParaphrase(text.s,
                                   IF Truthy(tone) THEN StringOf(tone) ELSE <<"academic">>,
                                   ClampCount(body["variations"], ParaDefault, ParaMax))))]
  /\ UNCHANGED <<tutorMemory, uploads>>

\* tutorMemory.unshift(turn)
PushFront(mem, turn) == <<turn>> \o mem

\* tutorMemory.push(turn)
Push(mem, turn) == Append(mem, turn)

\* The conversation cut to its last turn.
TutorConvoLastOnly(mem) ==
  IF mem = <<>> THEN <<>>
  ELSE <<UpperChar(mem[Len(mem)].role), ":", " ">> \o mem[Len(mem)].text

\* tutorMemory.map(m => `${m.role.toUpperCase()}: ${m.text}`).join("\n")
TutorConvo(mem) ==
  Join([i \in 1..Len(mem) |-> <<UpperChar(mem[i].role), ":", " ">> \o mem[i].text], <<"\n">>)

\* POST /tutor, up to its await: the question is recorded before the call
Tutor(r, body) ==
  /\ req[r].pc = "idle"
  /\ LET rq == NewReq("tutor", body)
         question == body["question"]
         mem == Push(tutorMemory, [role |-> "user", text |-> question.s])
     IN IF BlankCheck(question) = "ok"
        THEN /\ tutorMemory' = mem
             /\ req' = [req EXCEPT ![r] = askGemini(rq, Prompt("tutor", Fin(0), TutorConvo(mem), <<>>))]
        ELSE /\ tutorMemory' = tutorMemory
             /\ req' = [req EXCEPT ![r] = GuardOutside(rq, question, "missing_question", rq)]
  /\ UNCHANGED uploads

\* POST /extract-table, up to its await
ExtractTable(r, body) ==
  /\ req[r].pc = "idle"
  /\ LET rq == NewReq("extract-table", body)
         text == body["text"]
     IN req' = [req EXCEPT ![r] =
                  GuardOutside(rq, text, "missing_text",
                               askGemini(rq, promptExtractTable(text.s)))]
  /\ UNCHANGED <<tutorMemory, uploads>>

\* normalizeRefs without its filter(Boolean)
normalizeRefsNoFilter(input) ==
  IF input.t = "array"
  THEN Join([i \in 1..Len(input.a) |->
               Trim(IF input.a[i].t = "string" THEN input.a[i].s
                    ELSE Stringify(input.a[i]))], <<"\n">>)
  ELSE IF input.t = "string" THEN Trim(input.s)
  ELSE IF input.t \in {"null", "undefined"} THEN <<>>
  ELSE Trim(StringOf(input))

\* normalizeRefs(input)
normalizeRefs(input) ==
  IF input.t = "array"
  THEN LET strs == [i \in 1..Len(input.a) |->
                      Trim(IF input.a[i].t = "string" THEN input.a[i].s
                           ELSE Stringify(input.a[i]))]
       IN Join(SelectSeq(strs, LAMBDA x : x # <<>>), <<"\n">>)
  ELSE IF input.t = "string" THEN Trim(input.s)
  ELSE IF input.t \in {"null", "undefined"} THEN <<>>
  ELSE Trim(StringOf(input))

\* POST /generate-citations, up to its await
GenerateCitations(r, body) ==
  /\ req[r].pc = "idle"
  /\ LET rq == NewReq("generate-citations", body)
         style == Default(body["style"], Str(<<"APA">>))
         refsText == normalizeRefs(body["references"])
     IN req' = [req EXCEPT ![r] =
                  IF refsText = <<>> THEN Respond(rq, 400, "missing_references", <<>>)
                  ELSE IF StrLength(refsText) > RefsLimit
                       THEN Respond(rq, 413, "payload_too_large", <<>>)
                  ELSE askGemini(rq, promptCitations(refsText, StringOf(style)))]
  /\ UNCHANGED <<tutorMemory, uploads>>

\* POST /knowledge-graph, up to its await
KnowledgeGraph(r, body) ==
  /\ req[r].pc = "idle"
  /\ LET rq == NewReq("knowledge-graph", body)
         text == body["text"]
     IN req' = [req EXCEPT ![r] =
                  GuardOutside(rq, text, "missing_text",
                               askGemini(rq, promptERGraph(text.s)))]
  /\ UNCHANGED <<tutorMemory, uploads>>

\* path.extname(name) of a name without directory separators
extname(name) ==
  LET dots == {i \in 1..Len(name) : name[i] = "."}
  IN IF dots = {} \/ name = <<".", ".">> THEN <<>>
     ELSE IF SetMax(dots) = 1 THEN <<>>
     ELSE SubSeq(name, SetMax(dots), Len(name))

\* readPdf(filePath) of a file that parses: a document is its pages, a page
\* its text items; every page adds its items joined by blanks and "\n\n".
RECURSIVE readPdf(_)
readPdf(doc) ==
  IF doc = <<>> THEN <<>>
  ELSE Join(Head(doc), <<" ">>) \o <<"\n", "\n">> \o readPdf(Tail(doc))

\* An unlink of another path: the upload stays.
unlinkSyncOtherPath(files, f, ok) == files

\* fs.unlinkSync(path): removes the file, or throws and leaves it
unlinkSync(files, f, ok) == IF ok THEN files \ {f} ELSE files

\* `finally { try { fs.unlinkSync(req.file.path); } catch {} }`
Finally(rq, ok) == [rq EXCEPT !.unlink = IF ok THEN "ok" ELSE "failed"]

\* POST /summarize-pdf, up to its first await; multer has stored the upload
\* (the temporary file of request r is named r) before the handler runs.
SummarizePdf(r, body) ==
  /\ req[r].pc = "idle"
  /\ LET rq == NewReq("summarize-pdf", body)
         file == body["file"]
         ext == toLowerCase(extname(file.s))
     IN IF ~Truthy(file)
        THEN /\ req' = [req EXCEPT ![r] = Respond(rq, 400, "no_file", <<>>)]
             /\ uploads' = uploads
        ELSE IF ext # <<".", "p", "d", "f">>
        THEN \E ok \in BOOLEAN :
               /\ req' = [req EXCEPT ![r] = Finally(Respond(rq, 400, "unsupported_type", <<>>), ok)]
               /\ uploads' = unlinkSync(uploads \cup {r}, r, ok)
        ELSE /\ req' = [req EXCEPT ![r] = [rq EXCEPT !.pc = "reading", !.read = "pending"]]
             /\ uploads' = uploads \cup {r}
  /\ UNCHANGED tutorMemory

\* readPdf resolves with the text of doc
ReadPdfResolve(r, doc) ==
  /\ req[r].pc = "reading"
  /\ LET rq == [req[r] EXCEPT !.read = "ok"]
         text == readPdf(doc)
     IN IF Trim(text) = <<>>
        THEN \E ok \in BOOLEAN :
               /\ req' = [req EXCEPT ![r] = Finally(Respond(rq, 400, "empty_pdf", <<>>), ok)]
               /\ uploads' = unlinkSync(uploads, r, ok)
        ELSE /\ req' = [req EXCEPT ![r] = askGemini(rq, promptSummary(text, <<"English">>))]
             /\ uploads' = uploads
  /\ UNCHANGED tutorMemory

\* readPdf rejects: the file cannot be read or parsed
ReadPdfReject(r) ==
  /\ req[r].pc = "reading"
  /\ \E ok \in BOOLEAN :
       /\ req' = [req EXCEPT ![r] =
                    Finally(Respond([req[r] EXCEPT !.read = "error"], 500,
                                    FailCode("summarize-pdf"), <<>>), ok)]
       /\ uploads' = unlinkSync(uploads, r, ok)
  /\ UNCHANGED tutorMemory

\* The model call resolves with raw text: askGemini returns it trimmed and
\* the handler goes on to its response.
AskResolve(r, raw) ==
  /\ req[r].pc = "awaiting"
  /\ LET answer == Trim(raw)
         rq == [req[r] EXCEPT !.answer = answer]
         done == Respond(rq, 200, "", wrapBilingual(answer, rq.body["language"]))
     IN IF rq.route = "summarize-pdf"
        THEN \E ok \in BOOLEAN :
               /\ req' = [req EXCEPT ![r] = Finally(done, ok)]
               /\ uploads' = unlinkSync(uploads, r, ok)
               /\ tutorMemory' = tutorMemory
        ELSE /\ req' = [req EXCEPT ![r] = done]
             /\ uploads' = uploads
             /\ tutorMemory' = IF rq.route = "tutor"
                               THEN Push(tutorMemory, [role |-> "assistant", text |-> answer])
                               ELSE tutorMemory

\* The model call rejects: the catch block of the route answers 500.
AskReject(r) ==
  /\ req[r].pc = "awaiting"
  /\ LET done == Respond(req[r], 500, FailCode(req[r].route), <<>>)
     IN IF req[r].route = "summarize-pdf"
        THEN \E ok \in BOOLEAN :
               /\ req' = [req EXCEPT ![r] = Finally(done, ok)]
               /\ uploads' = unlinkSync(uploads, r, ok)
        ELSE /\ req' = [req EXCEPT ![r] = done]
             /\ uploads' = uploads
  /\ UNCHANGED tutorMemory

\* ------------------------------------------------------------------ inputs
\* Sequences over S of length at most n
RECURSIVE SeqsUpTo(_, _)
SeqsUpTo(S, n) ==
  IF n = 0 THEN {<<>>}
  ELSE LET shorter == SeqsUpTo(S, n - 1)
       IN shorter \cup {Append(q, x) : q \in shorter, x \in S}

RawAnswers == {<<>>, <<"a">>, <<"b", " ">>}

ReqVals == {Undef, Null, Str(<<>>), Str(<<" ">>), Str(<<"q">>), Num(0), Num(7)}

Langs == {Undef, Str(<<"f", "r">>)}

QuestionBodies == {Body("question" :> v @@ "language" :> l) : v \in ReqVals, l \in Langs}

TextBodies == {Body("text" :> v @@ "language" :> l) : v \in ReqVals, l \in Langs}

EssayBodies == {Body("essay" :> v @@ "language" :> l) : v \in ReqVals, l \in Langs}

PlannerBodies ==
  {Body("subjects" :> sub @@ "examDate" :> d) :
     sub \in {Undef, Null, Arr(<<>>), Arr(<<Str(<<"m">>), Str(<<"p">>)>>), Str(<<"m">>), Num(7)},
     d \in {Undef, Str(<<"d">>)}}

MotivationBodies == {Body("context" :> c @@ "language" :> l) : c \in {Undef, Str(<<"c">>)}, l \in Langs}

CitationBodies ==
  {Body("references" :> v) :
     v \in {Undef, Str(<<>>), Str(<<" ">>), Str(<<"r">>), Str(<<Big>>), Arr(<<>>),
            Arr(<<Str(<<"r">>), Obj>>), Num(7)}}

PdfBodies ==
  {Body("file" :> f) :
     f \in {Undef, File(<<"a", ".", "p", "d", "f">>), File(<<"a", ".", "P", "D", "F">>),
            File(<<"a", ".", "t", "x", "t">>), File(<<".", "p", "d", "f">>)}}

SmallDocs == {<<>>, <<<<>>>>, <<<<<<"x">>>>>>}

TutorBodies ==
  {Body("question" :> v) : v \in {Undef, Str(<<" ">>), Str(<<"q">>), Str(<<"p">>), Num(7)}}

\* ---------------------------------------------------------- specifications
Init ==
  /\ req = [r \in Slots |-> Idle]
  /\ tutorMemory = <<>>
  /\ uploads = {}

\* Slot r is free: the next request takes it.  (The handlers test it too;
\* here it spares the enumeration of the bodies.)
Arriving(r) == req[r].pc = "idle"

\* The whole server: requests on every route.
Next ==
  \E r \in 1..ServerReqs :
    \/ Health(r)
    \/ Arriving(r) /\ \E b \in QuestionBodies : Chat(r, b)
    \/ Arriving(r) /\ \E b \in TextBodies : SummarizeText(r, b)
    \/ Arriving(r) /\ \E b \in PdfBodies : SummarizePdf(r, b)
    \/ \E d \in SmallDocs : ReadPdfResolve(r, d)
    \/ ReadPdfReject(r)
    \/ Arriving(r) /\ \E b \in TextBodies : GenerateQuiz(r, b)
    \/ Arriving(r) /\ \E b \in TextBodies : Flashcards(r, b)
    \/ Arriving(r) /\ \E b \in PlannerBodies : StudyPlanner(r, b)
    \/ Arriving(r) /\ \E b \in TextBodies : Mindmap(r, b)
    \/ Arriving(r) /\ \E b \in MotivationBodies : Motivation(r, b)
    \/ Arriving(r) /\ \E b \in EssayBodies : EssayFeedback(r, b)
    \/ Arriving(r) /\ \E b \in TextBodies : Paraphrase(r, b)
    \/ Arriving(r) /\ \E b \in QuestionBodies : Tutor(r, b)
    \/ Arriving(r) /\ \E b \in TextBodies : ExtractTable(r, b)
    \/ Arriving(r) /\ \E b \in CitationBodies : GenerateCitations(r, b)
    \/ Arriving(r) /\ \E b \in TextBodies : KnowledgeGraph(r, b)
    \/ \E raw \in RawAnswers : AskResolve(r, raw)
    \/ AskReject(r)

Spec == Init /\ [][Next]_vars

\* Concurrent /tutor requests, numbered in their order of arrival.
NextTutor ==
  \E r \in 1..NumReq :
    \/ /\ Arriving(r) /\ \A q \in 1..(r - 1) : ~Arriving(q)
       /\ \E b \in TutorBodies : Tutor(r, b)
    \/ \E raw \in RawAnswers : AskResolve(r, raw)
    \/ AskReject(r)

SpecTutor == Init /\ [][NextTutor]_vars

\* Quiz, flashcard and paraphrase requests over many values of the count.
CountVals ==
  {Num(n) : n \in (0 - 2)..MaxCount} \cup
  {Undef, Null, Bool(TRUE), Bool(FALSE), Obj, Arr(<<>>), Arr(<<Num(500)>>), Num(500),
   Str(<<>>), Str(<<"a">>), Str(<<"5", "0", "0">>), Str(<<" ", "7", " ">>), Str(<<"-", "3">>),
   Str(<<"I", "n", "f", "i", "n", "i", "t", "y">>),
   Str(<<"-", "I", "n", "f", "i", "n", "i", "t", "y">>)}

CountBodies == {Body("text" :> Str(<<"q">>) @@ "count" :> c) : c \in CountVals}

VariationBodies == {Body("text" :> Str(<<"q">>) @@ "variations" :> c) : c \in CountVals}

NextCount ==
  \/ Arriving(1) /\ \E b \in CountBodies : GenerateQuiz(1, b)
  \/ Arriving(1) /\ \E b \in CountBodies : Flashcards(1, b)
  \/ Arriving(1) /\ \E b \in VariationBodies : Paraphrase(1, b)
  \/ \E raw \in RawAnswers : AskResolve(1, raw)
  \/ AskReject(1)

SpecCount == Init /\ [][NextCount]_vars

\* Requests on two routes over many values of `language`.
LangChars == {"n", "N", "o", "e", "x"}

LangVals == {Undef, Null} \cup {Str(l) : l \in SeqsUpTo(LangChars, MaxLangLen)}

ChatLangBodies == {Body("question" :> Str(<<"q">>) @@ "language" :> l) : l \in LangVals}

GraphLangBodies == {Body("text" :> Str(<<"q">>) @@ "language" :> l) : l \in LangVals}

NextWrap ==
  \/ Arriving(1) /\ \E b \in ChatLangBodies : Chat(1, b)
  \/ Arriving(1) /\ \E b \in GraphLangBodies : KnowledgeGraph(1, b)
  \/ \E raw \in RawAnswers : AskResolve(1, raw)
  \/ AskReject(1)

SpecWrap == Init /\ [][NextWrap]_vars

\* Citation requests over strings and arrays of references.
RefChars == {" ", "r", "\n"}

RefStrings == SeqsUpTo(RefChars, MaxRefLen) \cup {<<Big>>}

RefEntries == {Str(e) : e \in RefStrings} \cup {Obj, Null, Num(5)}

RefVals ==
  {Str(e) : e \in RefStrings} \cup {Arr(a) : a \in SeqsUpTo(RefEntries, MaxRefs)} \cup
  {Undef, Null, Obj, Num(0), Num(7)}

RefBodies == {Body("references" :> v @@ "language" :> l) : v \in RefVals, l \in Langs}

NextRefs ==
  \/ Arriving(1) /\ \E b \in RefBodies : GenerateCitations(1, b)
  \/ \E raw \in RawAnswers : AskResolve(1, raw)
  \/ AskReject(1)

SpecRefs == Init /\ [][NextRefs]_vars

\* PDF uploads over many file names and documents.
NameParts == {<<"a">>, <<".">>, <<".", "p", "d", "f">>, <<".", "P", "d", "F">>}

RECURSIVE Flatten(_)
Flatten(ss) == IF ss = <<>> THEN <<>> ELSE Head(ss) \o Flatten(Tail(ss))

FileNames == {Flatten(q) : q \in SeqsUpTo(NameParts, MaxNameParts)}

Docs == SeqsUpTo(SeqsUpTo({<<>>, <<"x">>}, MaxItems), MaxPages)

FileBodies == {Body(<<>>)} \cup {Body("file" :> File(nm)) : nm \in FileNames}

NextPdf ==
  \/ Arriving(1) /\ \E b \in FileBodies : SummarizePdf(1, b)
  \/ req[1].pc = "reading" /\ \E d \in Docs : ReadPdfResolve(1, d)
  \/ ReadPdfReject(1)
  \/ \E raw \in RawAnswers : AskResolve(1, raw)
  \/ AskReject(1)

SpecPdf == Init /\ [][NextPdf]_vars

\* -------------------------------------------------------------- properties
TurnLine(role, text) == <<role, ":", " ">> \o text

\* The lines a history prints in a tutoring prompt.
HistoryLines(mem) ==
  [i \in 1..Len(mem) |->
     TurnLine(IF mem[i].role = "user" THEN "USER" ELSE "ASSISTANT", mem[i].text)]

\* C1: the prompt of a /tutor request is, line by line and in order, every
\* turn recorded before the request arrived followed by its own question.
C1_PromptHasAllEarlierTurns ==
  \A r \in Slots :
    (req[r].route = "tutor" /\ req[r].calls > 0) =>
      /\ req[r].prompt.text =
           Join(HistoryLines(req[r].memBefore)
                  \o <<TurnLine("USER", req[r].body["question"].s)>>, <<"\n">>)
      /\ Len(tutorMemory) > Len(req[r].memBefore)
      /\ SubSeq(tutorMemory, 1, Len(req[r].memBefore)) = req[r].memBefore

\* A second request was prompted after a question and its answer.
C1_Witness ==
  \E r \in Slots :
    /\ req[r].route = "tutor" /\ req[r].calls > 0
    /\ Len(req[r].memBefore) >= 2
    /\ req[r].memBefore[2].role = "assistant"

HasFile(rq) == rq.route = "summarize-pdf" /\ rq.body["file"].t = "file"

PdfExt == <<".", "p", "d", "f">>

\* C2: a /summarize-pdf request with a file ends, on every path, with one
\* response that the path alone decides and with the removal of its
\* temporary file attempted; the file is gone unless that removal failed.
C2_UploadRemoved ==
  \A r \in Slots :
    (HasFile(req[r]) /\ req[r].pc \notin {"idle", "reading", "awaiting"}) =>
      /\ req[r].pc = "done" /\ req[r].sent = 1
      /\ req[r].unlink \in {"ok", "failed"}
      /\ req[r].unlink = "ok" => r \notin uploads
      /\ IF toLowerCase(extname(req[r].body["file"].s)) # PdfExt
         THEN req[r].status = 400 /\ req[r].error = "unsupported_type" /\ req[r].read = "none"
         ELSE IF req[r].read = "error"
         THEN req[r].status = 500 /\ req[r].error = "summarize_pdf_failed"
         ELSE IF req[r].calls = 0
         THEN req[r].status = 400 /\ req[r].error = "empty_pdf"
         ELSE \/ req[r].status = 500 /\ req[r].error = "summarize_pdf_failed"
              \/ /\ req[r].status = 200 /\ req[r].error = ""
                 /\ req[r].out = wrapBilingual(req[r].answer, req[r].body["language"])

\* An upload with an unsupported extension was answered and removed.
C2_Witness ==
  \E r \in Slots :
    /\ HasFile(req[r]) /\ req[r].error = "unsupported_type"
    /\ req[r].unlink = "ok" /\ r \notin uploads

CountMax(tpl) ==
  CASE tpl = "quiz" -> 50 [] tpl = "flashcards" -> 100 [] OTHER -> 6

\* C3: the count in a quiz, flashcard or paraphrase prompt lies within the
\* route's bounds; a quiz count of 500 gives 50 and a quiz count of 0 gives 1.
C3_CountClamped ==
  \A r \in Slots :
    (req[r].calls > 0 /\ req[r].prompt.tpl \in {"quiz", "flashcards", "paraphrase"}) =>
      /\ req[r].prompt.n.k = "fin"
      /\ req[r].prompt.n.n >= 1
      /\ req[r].prompt.n.n <= CountMax(req[r].prompt.tpl)
      /\ (req[r].prompt.tpl = "quiz" /\ req[r].body["count"] = Num(500)) => req[r].prompt.n.n = 50
      /\ (req[r].prompt.tpl = "quiz" /\ req[r].body["count"] = Num(0)) => req[r].prompt.n.n = 1

\* The spellings of "none" in any letter case.
NoneSpellings ==
  {<<a, b, c, d>> : a \in {"n", "N"}, b \in {"o", "O"}, c \in {"n", "N"}, d \in {"e", "E"}}

SuffixTemplate(lang) ==
  <<"\n", "\n", "-", "-", "-", "\n", "\n", "(translate) ">> \o lang
    \o <<" Translation:", "\n", "Translate the entire answer above to ">> \o lang
    \o <<", preserving structure, headings, lists and tone.">>

\* C4: a successful response is the model's answer unchanged when language
\* is absent, empty or a spelling of "none", and otherwise the answer
\* followed by the one suffix template with the language in both places.
C4_WrapBilingual ==
  \A r \in Slots :
    (req[r].pc = "done" /\ req[r].status = 200 /\ req[r].route # "health") =>
      LET language == req[r].body["language"]
      IN IF language.t # "string" \/ language.s = <<>> \/ language.s \in NoneSpellings
         THEN req[r].out = req[r].answer
         ELSE req[r].out = req[r].answer \o SuffixTemplate(language.s)

\* An answer went out unchanged for a language spelled "NoNe".
C4_Witness ==
  \E r \in Slots :
    /\ req[r].status = 200 /\ req[r].answer # <<>>
    /\ req[r].body["language"] = Str(<<"N", "o", "N", "e">>)
    /\ req[r].out = req[r].answer

AllWhite(s) == \A i \in 1..Len(s) : IsWhite(s[i])

\* An entry of a references array that normalizes to nothing.
EmptyEntry(v) == v.t = "string" /\ AllWhite(v.s)

\* The references the model is to receive.
ExpectedRefs(v) ==
  IF v.t = "string" THEN Trim(v.s)
  ELSE LET kept == SelectSeq(v.a, LAMBDA e : ~EmptyEntry(e))
       IN Join([i \in 1..Len(kept) |->
                  IF kept[i].t = "string" THEN Trim(kept[i].s)
                  ELSE IF kept[i].t = "object" THEN <<"{", "}">>
                  ELSE IF kept[i].t = "null" THEN <<"null">>
                  ELSE Digits(kept[i].n)], <<"\n">>)

\* C5: references given as a string or as an array reach the model as a
\* non-empty newline-joined string of the trimmed non-empty entries; a blank
\* string, an empty array and an array of empty entries are all answered
\* 400 missing_references.
C5_References ==
  \A r \in Slots :
    LET refs == req[r].body["references"]
    IN (req[r].route = "generate-citations" /\ refs.t \in {"string", "array"}) =>
         /\ req[r].calls > 0 =>
              /\ req[r].prompt.text # <<>>
              /\ req[r].prompt.text = ExpectedRefs(refs)
         /\ ((refs.t = "string" /\ AllWhite(refs.s))
              \/ (refs.t = "array" /\ \A i \in 1..Len(refs.a) : EmptyEntry(refs.a[i]))) =>
              /\ req[r].pc = "done" /\ req[r].status = 400
              /\ req[r].error = "missing_references" /\ req[r].calls = 0

\* An array with an empty entry and a reference was sent on.
C5_Witness ==
  \E r \in Slots :
    /\ req[r].route = "generate-citations" /\ req[r].calls > 0
    /\ req[r].body["references"].t = "array"
    /\ \E i \in 1..Len(req[r].body["references"].a) : EmptyEntry(req[r].body["references"].a[i])

TextRoutes ==
  {"chat", "summarize-text", "generate-quiz", "flashcards", "mindmap", "essay-feedback",
   "paraphrase", "tutor", "extract-table", "knowledge-graph"}

RequiredField(route) ==
  CASE route \in {"chat", "tutor"} -> "question"
    [] route = "essay-feedback" -> "essay"
    [] OTHER -> "text"

MissingCode(route) ==
  CASE route = "chat" -> "Missing 'question'"
    [] route = "tutor" -> "missing_question"
    [] route = "essay-feedback" -> "missing_essay"
    [] OTHER -> "missing_text"

\* C6: on every text-input route a required field that is missing, empty or
\* whitespace-only is answered 400 with the route's fixed error code.
C6_BlankIs400 ==
  \A r \in Slots :
    LET v == req[r].body[RequiredField(req[r].route)]
    IN (req[r].route \in TextRoutes /\ (v.t = "undefined" \/ (v.t = "string" /\ AllWhite(v.s)))) =>
         /\ req[r].pc = "done" /\ req[r].sent = 1
         /\ req[r].status = 400
         /\ req[r].error = MissingCode(req[r].route)
         /\ req[r].calls = 0

\* A whitespace-only question was refused.
C6_Witness ==
  \E r \in Slots :
    /\ req[r].route = "tutor" /\ req[r].body["question"] = Str(<<" ">>)
    /\ req[r].status = 400

\* C7: every exception raised while a request is handled is caught by the
\* route's handler, which answers once with 500 and the route's error code;
\* no request is left without a response.
C7_EveryExceptionCaught ==
  \A r \in Slots :
    /\ req[r].pc # "unhandled"
    /\ req[r].pc = "done" => req[r].sent = 1
    /\ req[r].status = 500 => req[r].error = FailCode(req[r].route)

\* C8: a request that ends in a failure response leaves the tutoring
\* history as it was before the request (no other request being made).
C8_FailureLeavesHistory ==
  \A r \in Slots :
    (/\ req[r].pc = "done" /\ req[r].status \in {400, 413, 500}
     /\ \A q \in Slots \ {r} : req[q].pc = "idle") =>
      tutorMemory = req[r].memBefore

UserTurns(q) == {i \in 1..Len(tutorMemory) : tutorMemory[i] = [role |-> "user", text |-> q]}

AssistantTurns(a) == {i \in 1..Len(tutorMemory) : tutorMemory[i] = [role |-> "assistant", text |-> a]}

Accepted == {r \in Slots : req[r].route = "tutor" /\ req[r].status \in {200, 500}}

Succeeded == {r \in Slots : req[r].route = "tutor" /\ req[r].status = 200}

\* Every step leaves the history alone or adds one turn at its end.
AppendOnly ==
  /\ Len(tutorMemory') \in {Len(tutorMemory), Len(tutorMemory) + 1}
  /\ SubSeq(tutorMemory', 1, Len(tutorMemory)) = tutorMemory

\* No request is suspended at its model call.
Quiescent == \A r \in Slots : req[r].pc # "awaiting"

\* C9: under any interleaving the history only grows at its end, and once
\* no request is in flight it holds the question of every request that was
\* not rejected and the answer of every request that succeeded, no more.
C9_AppendOnlyHistory ==
  /\ [][AppendOnly]_vars
  /\ [](Quiescent =>
          /\ Len(tutorMemory) = Cardinality(Accepted) + Cardinality(Succeeded)
          /\ \A r \in Accepted :
               Cardinality(UserTurns(req[r].body["question"].s)) =
                 Cardinality({q \in Accepted : req[q].body["question"] = req[r].body["question"]})
          /\ \A r \in Succeeded :
               Cardinality(AssistantTurns(req[r].answer)) =
                 Cardinality({q \in Succeeded : req[q].answer = req[r].answer}))

\* Two requests overlapped: both questions precede both answers.
C9_Witness ==
  /\ Quiescent
  /\ Len(tutorMemory) = 4
  /\ tutorMemory[2].role = "user"
  /\ tutorMemory[3].role = "assistant"

\* C10: a request calls the model at most once, a request answered 400 or
\* 413 never calls it, and /summarize-pdf tests no_file, then
\* unsupported_type, then empty_pdf.
C10_OneModelCall ==
  \A r \in Slots :
    /\ req[r].calls <= 1
    /\ req[r].status \in {400, 413} => req[r].calls = 0
    /\ (req[r].route = "summarize-pdf" /\ req[r].pc # "idle") =>
         /\ req[r].body["file"].t = "undefined" =>
              req[r].error = "no_file" /\ req[r].read = "none"
         /\ (HasFile(req[r]) /\ toLowerCase(extname(req[r].body["file"].s)) # PdfExt) =>
              req[r].error = "unsupported_type" /\ req[r].read = "none"
         /\ req[r].error = "empty_pdf" =>
              /\ toLowerCase(extname(req[r].body["file"].s)) = PdfExt
              /\ req[r].read = "ok"

\* A model call failed and was not repeated.
C10_Witness ==
  \E r \in Slots : req[r].status = 500 /\ req[r].calls = 1

====
